---- MODULE Spec2Model ----
(***************************************************************************)
(* Two-pass MIPS assembler (assembler.py): the scan pass of                *)
(* parse_source_code, the encoder instruction_to_machine_code and the      *)
(* driver loop of assemble.                                                *)
(*                                                                         *)
(* Python strings are modelled as sequences of one-character strings, so   *)
(* that split, strip, upper, int and format are computed character by      *)
(* character as the interpreter computes them.                             *)
(***************************************************************************)
EXTENDS Integers, Sequences, FiniteSets, TLC

\* address = 0x00400000
BaseAddress == 4194304

\* ------------------------------------------------------------------------
\* instruction_set: mnemonic -> opcode / function code
\* ------------------------------------------------------------------------
instruction_set_R ==
    (<<"A","D","D">> :> <<"1","0","0","0","0","0">>)
    @@ (<<"S","U","B">> :> <<"1","0","0","0","1","0">>)
    @@ (<<"A","N","D">> :> <<"1","0","0","1","0","0">>)
    @@ (<<"O","R">> :> <<"1","0","0","1","0","1">>)
    @@ (<<"S","L","L">> :> <<"0","0","0","0","0","0">>)
    @@ (<<"S","R","L">> :> <<"0","0","0","0","1","0">>)
    @@ (<<"S","L","L","V">> :> <<"0","0","0","1","0","0">>)
    @@ (<<"S","R","L","V">> :> <<"0","0","0","1","1","0">>)

instruction_set_I ==
    (<<"A","D","D","I">> :> <<"0","0","1","0","0","0">>)
    @@ (<<"A","N","D","I">> :> <<"0","0","1","1","0","0">>)
    @@ (<<"L","W">> :> <<"1","0","0","0","1","1">>)
    @@ (<<"S","W">> :> <<"1","0","1","0","1","1">>)
    @@ (<<"B","E","Q">> :> <<"0","0","0","1","0","0">>)
    @@ (<<"B","N","E">> :> <<"0","0","0","1","0","1">>)
    @@ (<<"B","L","E","Z">> :> <<"0","0","0","1","1","0">>)
    @@ (<<"B","G","T","Z">> :> <<"0","0","0","1","1","1">>)

instruction_set_J ==
    (<<"J">> :> <<"0","0","0","0","1","0">>)

\* str.upper() on the ASCII letters
upper_map ==
    ("a" :> "A") @@ ("b" :> "B") @@ ("c" :> "C") @@ ("d" :> "D") @@ ("e" :> "E") @@ ("f" :> "F") @@ ("g" :> "G")
    @@ ("h" :> "H") @@ ("i" :> "I") @@ ("j" :> "J") @@ ("k" :> "K") @@ ("l" :> "L") @@ ("m" :> "M") @@ ("n" :> "N")
    @@ ("o" :> "O") @@ ("p" :> "P") @@ ("q" :> "Q") @@ ("r" :> "R") @@ ("s" :> "S") @@ ("t" :> "T") @@ ("u" :> "U")
    @@ ("v" :> "V") @@ ("w" :> "W") @@ ("x" :> "X") @@ ("y" :> "Y") @@ ("z" :> "Z")

digit_value ==
    ("0" :> 0) @@ ("1" :> 1) @@ ("2" :> 2) @@ ("3" :> 3) @@ ("4" :> 4)
    @@ ("5" :> 5) @@ ("6" :> 6) @@ ("7" :> 7) @@ ("8" :> 8) @@ ("9" :> 9)

\* ------------------------------------------------------------------------
\* Python string primitives
\* ------------------------------------------------------------------------
\* characters str.strip() removes and the regex class \s matches
Whitespace == {" ", "\t", "\n"}

\* index of the first character of s that is in chars, 0 when there is none
FirstIndex(s, chars) ==
    IF \E i \in 1..Len(s) : s[i] \in chars
    THEN CHOOSE i \in 1..Len(s) :
            s[i] \in chars /\ \A j \in 1..(i - 1) : s[j] \notin chars
    ELSE 0

RECURSIVE lstrip(_)
lstrip(s) ==
    IF s # <<>> /\ Head(s) \in Whitespace THEN lstrip(Tail(s)) ELSE s

RECURSIVE rstrip(_)
rstrip(s) ==
    IF s # <<>> /\ s[Len(s)] \in Whitespace
    THEN rstrip(SubSeq(s, 1, Len(s) - 1))
    ELSE s

\* str.strip()
strip(s) == rstrip(lstrip(s))

\* str.split(sep) for a one-character separator: every piece, empty ones too
RECURSIVE str_split(_, _)
str_split(s, sep) ==
    LET i == FirstIndex(s, {sep})
    IN  IF i = 0
        THEN <<s>>
        ELSE <<SubSeq(s, 1, i - 1)>> \o str_split(SubSeq(s, i + 1, Len(s)), sep)

\* re.split(r'[,\s]\s*', s): a separator is one comma or whitespace character
\* and the whitespace run that follows it
RECURSIVE re_split(_)
re_split(s) ==
    LET i == FirstIndex(s, Whitespace \cup {","})
    IN  IF i = 0
        THEN <<s>>
        ELSE <<SubSeq(s, 1, i - 1)>> \o re_split(lstrip(SubSeq(s, i + 1, Len(s))))

\* str.upper()
upper(s) ==
    [i \in 1..Len(s) |-> IF s[i] \in DOMAIN upper_map THEN upper_map[s[i]] ELSE s[i]]

\* the result of a Python expression: a value, or the exception it raises
Return(v) == [exc |-> "", val |-> v]
Raise(e) == [exc |-> e, val |-> <<>>]

RECURSIVE digits_to_int(_)
digits_to_int(s) ==
    IF s = <<>> THEN 0
    ELSE IF s[Len(s)] = "_" THEN digits_to_int(SubSeq(s, 1, Len(s) - 1))
    ELSE 10 * digits_to_int(SubSeq(s, 1, Len(s) - 1)) + digit_value[s[Len(s)]]

\* int(s): optional surrounding whitespace, an optional sign, decimal digits
\* with single underscores between them; ValueError otherwise
py_int(s0) ==
    LET s == strip(s0)
        signed == s # <<>> /\ s[1] \in {"+", "-"}
        body == IF signed THEN Tail(s) ELSE s
        valid ==
            /\ body # <<>>
            /\ \A i \in 1..Len(body) : body[i] \in DOMAIN digit_value \cup {"_"}
            /\ body[1] # "_"
            /\ body[Len(body)] # "_"
            /\ \A i \in 1..(Len(body) - 1) : ~(body[i] = "_" /\ body[i + 1] = "_")
    IN  IF ~valid THEN Raise("ValueError")
        ELSE IF signed /\ s[1] = "-" THEN Return(0 - digits_to_int(body))
        ELSE Return(digits_to_int(body))

RECURSIVE bin_digits(_)
bin_digits(n) ==
    IF n < 2
    THEN <<IF n = 1 THEN "1" ELSE "0">>
    ELSE bin_digits(n \div 2) \o <<IF n % 2 = 1 THEN "1" ELSE "0">>

zeros(k) == [i \in 1..k |-> "0"]

\* format(n, '0<width>b'): the binary digits of |n|, zero-padded to <width>
\* characters counting a leading '-' for a negative n; never truncated
format_b(n, width) ==
    LET sign == IF n < 0 THEN <<"-">> ELSE <<>>
        mag == bin_digits(IF n < 0 THEN 0 - n ELSE n)
        pad == width - Len(sign) - Len(mag)
    IN  sign \o zeros(IF pad > 0 THEN pad ELSE 0) \o mag

\* str(None), what the f-string of assemble renders for a None machine_code
PyNone == <<"N", "o", "n", "e">>

\* ------------------------------------------------------------------------
\* parse_source_code: the scan pass
\* ------------------------------------------------------------------------
\* labels = {}, instructions = [], address = 0x00400000
ScanStart == [labels |-> <<>>, instructions |-> <<>>, address |-> BaseAddress]

\* line.split('#')[0].strip()
strip_comment(line) == strip(str_split(line, "#")[1])

\* line.split(':')[0].strip()
label_of(line) == strip(str_split(line, ":")[1])

\* line.split(':')[1].strip()
remainder_of(line) == strip(str_split(line, ":")[2])

\* bind_label with the label bound after the address has advanced
bind_label_after_advance(labels, label, address) ==
    [l \in (DOMAIN labels) \cup {label} |->
        IF l = label THEN address + 4 ELSE labels[l]]

\* labels[label] = address
bind_label(labels, label, address) ==
    [l \in (DOMAIN labels) \cup {label} |->
        IF l = label THEN address ELSE labels[l]]

\* emit_record with "address += 4" outside the "if line:" block
emit_record_always_advance(st, line) ==
    [st EXCEPT !.instructions = IF line # <<>> THEN Append(@, <<st.address, line>>) ELSE @,
               !.address = @ + 4]

\* if line: instructions.append((address, line)); address += 4
emit_record(st, line) ==
    IF line # <<>>
    THEN [st EXCEPT !.instructions = Append(@, <<st.address, line>>),
                    !.address = @ + 4]
    ELSE st

\* one iteration of "for line in lines"
scan_line(st, raw) ==
    LET line == strip_comment(raw)
    IN  IF line = <<>>
        THEN st
        ELSE IF FirstIndex(line, {":"}) # 0
        THEN emit_record(
                [st EXCEPT !.labels = bind_label(@, label_of(line), st.address)],
                remainder_of(line))
        ELSE emit_record(st, line)

\* the loop over the first n lines of lines
RECURSIVE scan_prefix(_, _)
scan_prefix(lines, n) ==
    IF n = 0 THEN ScanStart ELSE scan_line(scan_prefix(lines, n - 1), lines[n])

\* ------------------------------------------------------------------------
\* reg_to_bin and instruction_to_machine_code: the encoder
\* ------------------------------------------------------------------------
\* reg_num = int(reg[1:]); return format(reg_num, '05b')
reg_to_bin(reg) ==
    LET reg_num == py_int(SubSeq(reg, 2, Len(reg)))
    IN  IF reg_num.exc # "" THEN reg_num ELSE Return(format_b(reg_num.val, 5))

\* rest[k] (k counted from 0) passed to reg_to_bin: IndexError when absent
reg_operand(rest, k) ==
    IF Len(rest) < k + 1 THEN Raise("IndexError") ELSE reg_to_bin(rest[k + 1])

\* int(rest[k]) (k counted from 0): IndexError when absent
int_operand(rest, k) ==
    IF Len(rest) < k + 1 THEN Raise("IndexError") ELSE py_int(rest[k + 1])

\* labels[rest[k]] (k counted from 0): IndexError, then KeyError
label_operand(rest, k, labels) ==
    IF Len(rest) < k + 1 THEN Raise("IndexError")
    ELSE IF rest[k + 1] \notin DOMAIN labels THEN Raise("KeyError")
    ELSE Return(labels[rest[k + 1]])

\* r_layout with the fields in operand order rd, rs, rt
r_layout_operand_order(rs, rt, rd, shamt, funct) ==
    zeros(6) \o rd \o rs \o rt \o shamt \o funct

\* '000000' + rs + rt + rd + shamt + funct
r_layout(rs, rt, rd, shamt, funct) ==
    zeros(6) \o rs \o rt \o rd \o shamt \o funct

\* instruction_set['I'][...] + rs + rt + <16-bit field>
i_layout(opcode, rs, rt, field) == opcode \o rs \o rt \o field

\* format(int(rest[3]), '05b') if opcode.upper() in ['SLL', 'SRL'] else '00000'
shamt_field(op, rest) ==
    IF op \in {<<"S", "L", "L">>, <<"S", "R", "L">>}
    THEN LET n == int_operand(rest, 3)
         IN  IF n.exc # "" THEN n ELSE Return(format_b(n.val, 5))
    ELSE Return(zeros(5))

\* the R-type branch
encode_R(op, rest) ==
    LET rd == reg_operand(rest, 0)
        rs == reg_operand(rest, 1)
        rt == reg_operand(rest, 2)
        shamt == shamt_field(op, rest)
    IN  IF rd.exc # "" THEN rd
        ELSE IF rs.exc # "" THEN rs
        ELSE IF rt.exc # "" THEN rt
        ELSE IF shamt.exc # "" THEN shamt
        ELSE Return(r_layout(rs.val, rt.val, rd.val, shamt.val, instruction_set_R[op]))

\* format(offset, '016b') for LW and SW
mem_offset_field(offset) == format_b(offset, 16)

\* branch_offset measured from the branch itself, not the instruction after it
branch_offset_from_branch(target, current_address) ==
    (target - current_address) \div 4

\* (labels[rest[2]] - current_address - 4) >> 2
branch_offset(target, current_address) == (target - current_address - 4) \div 4

\* format(offset & 0xFFFF, '016b')
masked_field(value) == format_b(value % 65536, 16)

\* the 16-bit field of the I-type branch, by mnemonic
i_field(op, rest, labels, current_address) ==
    IF op \in {<<"L", "W">>, <<"S", "W">>}
    THEN LET offset == int_operand(rest, 2)
         IN  IF offset.exc # "" THEN offset
             ELSE Return(mem_offset_field(offset.val))
    ELSE IF op \in {<<"B", "E", "Q">>, <<"B", "N", "E">>}
    THEN LET target == label_operand(rest, 2, labels)
         IN  IF target.exc # "" THEN target
             ELSE Return(masked_field(branch_offset(target.val, current_address)))
    ELSE LET immediate == int_operand(rest, 2)
         IN  IF immediate.exc # "" THEN immediate
             ELSE Return(masked_field(immediate.val))

\* the I-type branch
encode_I(op, rest, labels, current_address) ==
    LET rt == reg_operand(rest, 0)
        rs == reg_operand(rest, 1)
        field == i_field(op, rest, labels, current_address)
    IN  IF rt.exc # "" THEN rt
        ELSE IF rs.exc # "" THEN rs
        ELSE IF field.exc # "" THEN field
        ELSE Return(i_layout(instruction_set_I[op], rs.val, rt.val, field.val))

\* the J-type branch: address = labels[rest[0]] >> 2, format(address, '026b')
encode_J(op, rest, labels) ==
    LET target == label_operand(rest, 0, labels)
    IN  IF target.exc # "" THEN target
        ELSE Return(instruction_set_J[op] \o format_b(target.val \div 4, 26))

\* the value the function returns when no branch of the if/elif chain is taken
no_match_result == Return(PyNone)

instruction_to_machine_code(instruction, labels, current_address) ==
    LET parts == re_split(instruction)
        op == upper(parts[1])
        rest == Tail(parts)
    IN  IF op \in DOMAIN instruction_set_R THEN encode_R(op, rest)
        ELSE IF op \in DOMAIN instruction_set_I
        THEN encode_I(op, rest, labels, current_address)
        ELSE IF op \in DOMAIN instruction_set_J THEN encode_J(op, rest, labels)
        ELSE no_match_result

\* ------------------------------------------------------------------------
\* Inputs: source lines for whole runs, instruction texts for the encoder
\* ------------------------------------------------------------------------
\* ' \n'
src_blank ==
    <<" ","\n">>
\* '# init\n'
src_comment ==
    <<"#"," ","i","n","i","t","\n">>
\* 'LOOP:\n'
src_label_only ==
    <<"L","O","O","P",":","\n">>
\* 'LOOP: ADD $8, $9, $10  # sum\n'
src_label_add ==
    <<"L","O","O","P",":"," ","A","D","D"," ","$","8",","," ","$","9",","," ","$","1","0"," "," ","#"," ","s","u","m","\n">>
\* 'BEQ $1,$2,LOOP\n'
src_beq ==
    <<"B","E","Q"," ","$","1",",","$","2",",","L","O","O","P","\n">>
\* 'XYZ $1,$2,$3\n'
src_unknown ==
    <<"X","Y","Z"," ","$","1",",","$","2",",","$","3","\n">>
\* 'A: B: SUB $1,$2,$3\n'
src_two_colons ==
    <<"A",":"," ","B",":"," ","S","U","B"," ","$","1",",","$","2",",","$","3","\n">>

SourceLines ==
    {src_blank,
     src_comment,
     src_label_only,
     src_label_add,
     src_beq,
     src_unknown,
     src_two_colons}

\* longest source file considered
MaxLines == 4

\* 'ADD $t0, $t1, $t2'
txt_add_sym ==
    <<"A","D","D"," ","$","t","0",","," ","$","t","1",","," ","$","t","2">>
\* 'ADD $8, $9, $10'
txt_add_num ==
    <<"A","D","D"," ","$","8",","," ","$","9",","," ","$","1","0">>
\* 'add $8,$9,$10'
txt_add_lower ==
    <<"a","d","d"," ","$","8",",","$","9",",","$","1","0">>
\* 'SLL $1,$2,$3,4'
txt_sll ==
    <<"S","L","L"," ","$","1",",","$","2",",","$","3",",","4">>
\* 'SUB $32,$1,$2'
txt_sub_reg32 ==
    <<"S","U","B"," ","$","3","2",",","$","1",",","$","2">>
\* 'ADDI $1,$-1,5'
txt_addi_regneg ==
    <<"A","D","D","I"," ","$","1",",","$","-","1",",","5">>
\* 'LW $40,$2,4'
txt_lw_reg40 ==
    <<"L","W"," ","$","4","0",",","$","2",",","4">>
\* 'LW $1,$2,-4'
txt_lw_m4 ==
    <<"L","W"," ","$","1",",","$","2",",","-","4">>
\* 'LW $1,$2,-32768'
txt_lw_min ==
    <<"L","W"," ","$","1",",","$","2",",","-","3","2","7","6","8">>
\* 'SW $1,$2,32767'
txt_sw_max ==
    <<"S","W"," ","$","1",",","$","2",",","3","2","7","6","7">>
\* 'LW $1,$2,0'
txt_lw_0 ==
    <<"L","W"," ","$","1",",","$","2",",","0">>
\* 'SW $1,$2,-1'
txt_sw_m1 ==
    <<"S","W"," ","$","1",",","$","2",",","-","1">>
\* 'lw $1,$2,8'
txt_lw_8 ==
    <<"l","w"," ","$","1",",","$","2",",","8">>
\* 'BEQ $1,$2,LOOP'
txt_beq_loop ==
    <<"B","E","Q"," ","$","1",",","$","2",",","L","O","O","P">>
\* 'BNE $3,$4,END'
txt_bne_end ==
    <<"B","N","E"," ","$","3",",","$","4",",","E","N","D">>
\* 'BEQ $1,$2,NOPE'
txt_beq_undef ==
    <<"B","E","Q"," ","$","1",",","$","2",",","N","O","P","E">>
\* 'J LOOP'
txt_j_loop ==
    <<"J"," ","L","O","O","P">>
\* 'XYZ $1,$2,$3'
txt_unknown ==
    <<"X","Y","Z"," ","$","1",",","$","2",",","$","3">>
\* 'ADDI $1,$2,-1'
txt_addi_m1 ==
    <<"A","D","D","I"," ","$","1",",","$","2",",","-","1">>
\* 'ANDI $1,$2,65537'
txt_andi_big ==
    <<"A","N","D","I"," ","$","1",",","$","2",",","6","5","5","3","7">>
\* 'ADD $1,$2'
txt_add_short ==
    <<"A","D","D"," ","$","1",",","$","2">>
\* 'ADD $1 , $2,$3'
txt_add_gap ==
    <<"A","D","D"," ","$","1"," ",","," ","$","2",",","$","3">>
\* 'BLEZ $1,$2,3'
txt_blez ==
    <<"B","L","E","Z"," ","$","1",",","$","2",",","3">>
\* 'SRLV $31,$0,$1_0'
txt_srlv ==
    <<"S","R","L","V"," ","$","3","1",",","$","0",",","$","1","_","0">>

EncoderTexts ==
    {txt_add_sym,
     txt_add_num,
     txt_add_lower,
     txt_sll,
     txt_sub_reg32,
     txt_addi_regneg,
     txt_lw_reg40,
     txt_lw_m4,
     txt_lw_min,
     txt_sw_max,
     txt_lw_0,
     txt_sw_m1,
     txt_lw_8,
     txt_beq_loop,
     txt_bne_end,
     txt_beq_undef,
     txt_j_loop,
     txt_unknown,
     txt_addi_m1,
     txt_andi_big,
     txt_add_short,
     txt_add_gap,
     txt_blez,
     txt_srlv}

\* ------------------------------------------------------------------------
\* State of one run of assemble
\* ------------------------------------------------------------------------
VARIABLES
    lines,          \* file.readlines()
    lineno,         \* position of "for line in lines" (1-based, next line)
    labels,         \* label -> address
    instructions,   \* list of <<address, text>>
    address,        \* the scanner's address counter
    pc,             \* "scan", "encode", "done" or "failed"
    written,        \* the records written to the output file: <<address, machine_code>>
    k,              \* position of "for address, instruction in instructions"
    exc             \* the exception that ended the run, "" when none

vars == <<lines, lineno, labels, instructions, address, pc, written, k, exc>>

\* the scanner's locals as one record
ScanState == [labels |-> labels, instructions |-> instructions, address |-> address]

\* the source files considered: every sequence of at most MaxLines lines
RECURSIVE SeqsUpTo(_, _)
SeqsUpTo(S, n) ==
    IF n = 0 THEN {<<>>}
    ELSE LET shorter == SeqsUpTo(S, n - 1)
         IN  shorter \cup {Append(s, x) : s \in {t \in shorter : Len(t) = n - 1}, x \in S}

Init ==
    /\ lines \in SeqsUpTo(SourceLines, MaxLines)
    /\ lineno = 1
    /\ labels = ScanStart.labels
    /\ instructions = ScanStart.instructions
    /\ address = ScanStart.address
    /\ pc = "scan"
    /\ written = <<>>
    /\ k = 1
    /\ exc = ""

\* scan_finished with the return inside the loop body: one line is scanned
scan_finished_after_first_line == lineno > 1 \/ lineno > Len(lines)

\* "for line in lines" is exhausted
scan_finished == lineno > Len(lines)

\* one iteration of the loop of parse_source_code
ScanLine ==
    /\ pc = "scan"
    /\ ~scan_finished
    /\ LET st == scan_line(ScanState, lines[lineno])
       IN  /\ labels' = st.labels
           /\ instructions' = st.instructions
           /\ address' = st.address
    /\ lineno' = lineno + 1
    /\ UNCHANGED <<lines, pc, written, k, exc>>

\* return labels, instructions; assemble opens the output file
ScanReturn ==
    /\ pc = "scan"
    /\ scan_finished
    /\ pc' = "encode"
    /\ UNCHANGED <<lines, lineno, labels, instructions, address, written, k, exc>>

\* the call of line 100 for the k-th record
encode_current ==
    instruction_to_machine_code(instructions[k][2], labels, instructions[k][1])

\* one iteration of the loop of assemble: encode, then write the record
EncodeWrite ==
    /\ pc = "encode"
    /\ k <= Len(instructions)
    /\ encode_current.exc = ""
    /\ written' = Append(written, <<instructions[k][1], encode_current.val>>)
    /\ k' = k + 1
    /\ UNCHANGED <<lines, lineno, labels, instructions, address, pc, exc>>

\* the call raises: the exception leaves assemble, nothing more is written
EncodeRaise ==
    /\ pc = "encode"
    /\ k <= Len(instructions)
    /\ encode_current.exc # ""
    /\ pc' = "failed"
    /\ exc' = encode_current.exc
    /\ UNCHANGED <<lines, lineno, labels, instructions, address, written, k>>

\* the loop of assemble is exhausted
Finish ==
    /\ pc = "encode"
    /\ k > Len(instructions)
    /\ pc' = "done"
    /\ UNCHANGED <<lines, lineno, labels, instructions, address, written, k, exc>>

Next == ScanLine \/ ScanReturn \/ EncodeWrite \/ EncodeRaise \/ Finish

Spec == Init /\ [][Next]_vars

\* ------------------------------------------------------------------------
\* The encoder on its own: the encode pass of assemble entered with one
\* record of a program and that program's label table.  A source of tens of
\* thousands of lines is not scanned line by line here; the tables below are
\* ones such a scan produces (every address is BaseAddress + 4 * index).
\* ------------------------------------------------------------------------
\* index, among the retained instructions, of the record being encoded
RecordIndexes == {0, 2, 32768}

\* indexes the labels LOOP and END are bound to
LabelIndexes == {<<0, 3>>, <<2, 2>>, <<32768, 1>>, <<32769, 0>>}

AddressOf(index) == BaseAddress + 4 * index

LabelTables ==
    {(<<"L", "O", "O", "P">> :> AddressOf(p[1])) @@ (<<"E", "N", "D">> :> AddressOf(p[2])) :
        p \in LabelIndexes}

EncInit ==
    /\ lines = <<>>
    /\ lineno = 1
    /\ labels \in LabelTables
    /\ \E n \in RecordIndexes, text \in EncoderTexts :
          /\ instructions = <<<<AddressOf(n), text>>>>
          /\ address = AddressOf(n + 1)
    /\ pc = "encode"
    /\ written = <<>>
    /\ k = 1
    /\ exc = ""

EncNext == EncodeWrite \/ EncodeRaise \/ Finish

EncSpec == EncInit /\ [][EncNext]_vars

\* ------------------------------------------------------------------------
\* Vocabulary of the properties
\* ------------------------------------------------------------------------
\* nothing but whitespace stands before the line's comment marker, or its end
NoText(raw) ==
    \A i \in 1..Len(raw) : raw[i] \in Whitespace \/ \E j \in 1..i : raw[j] = "#"

\* the line's text is a label and its colon, and nothing else
LabelOnly(raw) ==
    /\ ~NoText(raw)
    /\ LET t == strip_comment(raw)
       IN  t[Len(t)] = ":" /\ \A i \in 1..(Len(t) - 1) : t[i] # ":"

\* the line defines label l: l is the text before its first colon
Defines(raw, l) ==
    LET t == strip_comment(raw)
        c == FirstIndex(t, {":"})
    IN  c # 0 /\ strip(SubSeq(t, 1, c - 1)) = l

\* the last line scanned so far that defines l
LastDefinition(l) ==
    CHOOSE j \in 1..(lineno - 1) :
        Defines(lines[j], l) /\ \A m \in (j + 1)..(lineno - 1) : ~Defines(lines[m], l)

\* number of records the scan emits for the lines before line j
RecordsBefore(j) == Len(scan_prefix(lines, j - 1).instructions)

\* the mnemonic of an instruction text, as the encoder reads it
Mnemonic(text) == upper(re_split(text)[1])

Operands(text) == Tail(re_split(text))

InTable(text, table) == Mnemonic(text) \in DOMAIN table

UnknownMnemonic(text) ==
    ~InTable(text, instruction_set_R) /\ ~InTable(text, instruction_set_I)
        /\ ~InTable(text, instruction_set_J)

IsBranch(text) == Mnemonic(text) \in {<<"B", "E", "Q">>, <<"B", "N", "E">>}

IsLoadStore(text) == Mnemonic(text) \in {<<"L", "W">>, <<"S", "W">>}

\* a 32-bit word written as text: 32 characters, each 0 or 1
IsWord32(code) == Len(code) = 32 /\ \A i \in 1..Len(code) : code[i] \in {"0", "1"}

\* the unsigned value of a string of binary digits, -1 when it is not one
RECURSIVE BitsValue(_)
BitsValue(bits) ==
    IF bits = <<>> THEN 0
    ELSE IF bits[Len(bits)] \notin {"0", "1"} THEN -1
    ELSE LET high == BitsValue(SubSeq(bits, 1, Len(bits) - 1))
         IN  IF high < 0 THEN -1
             ELSE 2 * high + (IF bits[Len(bits)] = "1" THEN 1 ELSE 0)

\* the low 16 characters of an encoded word
Low16(code) == SubSeq(code, Len(code) - 15, Len(code))

\* a 16-bit field read as a signed integer
Signed16(field) == IF field >= 32768 THEN field - 65536 ELSE field

\* an operand of the form $n with n an integer outside 0..31
BadRegister(token) ==
    /\ token # <<>>
    /\ token[1] = "$"
    /\ LET n == py_int(Tail(token))
       IN  n.exc = "" /\ (n.val < 0 \/ n.val > 31)

\* an R-type or I-type instruction one of whose register operands is such
RegisterOutOfRange(text) ==
    LET ops == Operands(text)
        regs == IF InTable(text, instruction_set_R) THEN 3
                ELSE IF InTable(text, instruction_set_I) THEN 2 ELSE 0
    IN  \E i \in 1..regs : i <= Len(ops) /\ BadRegister(ops[i])

\* 000000 01001 01010 01000 00000 100000
AddT0T1T2Word ==
    <<"0","0","0","0","0","0", "0","1","0","0","1", "0","1","0","1","0",
      "0","1","0","0","0", "0","0","0","0","0", "1","0","0","0","0","0">>

\* ------------------------------------------------------------------------
\* C1: the k-th retained instruction record (k from 0) has address
\* 0x00400000 + 4*k, the address counter is the address the next record
\* gets, and lines without text or holding only a label consume no address:
\* there are never more records than scanned lines of another kind.
\* ------------------------------------------------------------------------
C1_SequentialAddresses ==
    /\ \A n \in 1..Len(instructions) : instructions[n][1] = BaseAddress + 4 * (n - 1)
    /\ address = BaseAddress + 4 * Len(instructions)
    /\ Len(instructions) <=
          Cardinality({j \in 1..(lineno - 1) : ~NoText(lines[j]) /\ ~LabelOnly(lines[j])})

\* a scan that kept two records and skipped a line without text and a
\* label-only line
C1_Witness ==
    /\ pc = "encode"
    /\ Len(instructions) = 2
    /\ \E j \in 1..Len(lines) : NoText(lines[j])
    /\ \E j \in 1..Len(lines) : LabelOnly(lines[j])

\* ------------------------------------------------------------------------
\* C2: every label of the table is bound to the address of the next record
\* emitted after its last definition, or to the address the next record
\* would get when none follows; a label-only line emits no record and does
\* not advance the address.
\* ------------------------------------------------------------------------
C2_LabelIsNextAddress ==
    \A l \in DOMAIN labels :
        /\ \E j \in 1..(lineno - 1) : Defines(lines[j], l)
        /\ LET j == LastDefinition(l)
               n == RecordsBefore(j)
           IN  /\ labels[l] = BaseAddress + 4 * n
               /\ Len(instructions) > n => instructions[n + 1][1] = labels[l]
               /\ Len(instructions) = n => labels[l] = address
               /\ LabelOnly(lines[j]) =>
                     /\ Len(scan_prefix(lines, j).instructions) = n
                     /\ scan_prefix(lines, j).address = labels[l]

\* a label-only line after one record and before another: its label is bound
\* to the address of the record that follows it
C2_Witness ==
    /\ pc = "encode"
    /\ Len(instructions) = 2
    /\ \E l \in DOMAIN labels :
          /\ LabelOnly(lines[LastDefinition(l)])
          /\ labels[l] = BaseAddress + 4
          /\ instructions[2][1] = labels[l]

\* ------------------------------------------------------------------------
\* C3 (as claimed): a record whose mnemonic is in none of the three tables
\* makes the encoder fail and the run abort: no record is written for it.
\* ------------------------------------------------------------------------
C3_UnknownMnemonicAborts ==
    \A n \in 1..Len(instructions) :
        UnknownMnemonic(instructions[n][2]) => Len(written) < n

\* ------------------------------------------------------------------------
\* C4 (as claimed): whatever the operands, a call of the encoder that does
\* not fail returns exactly 32 binary digits.
\* ------------------------------------------------------------------------
C4_Always32Bits ==
    \A n \in 1..Len(written) : IsWord32(written[n][2])

\* ------------------------------------------------------------------------
\* C5 (as claimed): for LW and SW with a literal offset in -32768..32767 the
\* low 16 bits of the word are the offset's two's complement (offset mod
\* 2^16).
\* ------------------------------------------------------------------------
C5_OffsetTwosComplement ==
    \A n \in 1..Len(written) :
        LET text == instructions[n][2]
            offset == int_operand(Operands(text), 2)
        IN  (IsLoadStore(text) /\ offset.exc = ""
                /\ offset.val >= -32768 /\ offset.val <= 32767)
            => BitsValue(Low16(written[n][2])) = offset.val % 65536

\* ------------------------------------------------------------------------
\* C6 (as claimed): a register operand $n with n outside 0..31 makes the
\* encoder fail: no word is produced for that record.
\* ------------------------------------------------------------------------
C6_RegisterOutOfRangeFails ==
    \A n \in 1..Len(instructions) :
        RegisterOutOfRange(instructions[n][2]) => Len(written) < n

\* ------------------------------------------------------------------------
\* C7: a BEQ or BNE record at address A whose label is bound to T.
\* ------------------------------------------------------------------------
\* the written records that are branches to a bound label
BranchRecords ==
    {n \in 1..Len(written) :
        /\ IsBranch(instructions[n][2])
        /\ Len(Operands(instructions[n][2])) >= 3
        /\ Operands(instructions[n][2])[3] \in DOMAIN labels}

BranchTarget(n) == labels[Operands(instructions[n][2])[3]]

BranchField(n) == BitsValue(Low16(written[n][2]))

\* the word offset of the branch, (T - A - 4) >> 2
WordOffset(n) == (BranchTarget(n) - instructions[n][1] - 4) \div 4

\* C7 (as claimed): for every such record the low 16 bits, read as a signed
\* integer, times 4, plus A + 4, give exactly T.
C7_RoundTripAlways ==
    \A n \in BranchRecords :
        Signed16(BranchField(n)) * 4 + instructions[n][1] + 4 = BranchTarget(n)

\* C7 (amended): the field is ((T - A - 4) >> 2) masked to 16 bits, and the
\* round trip gives exactly T whenever that word offset lies in
\* -32768..32767.
C7_RoundTripInRange ==
    \A n \in BranchRecords :
        /\ BranchField(n) = WordOffset(n) % 65536
        /\ (WordOffset(n) >= -32768 /\ WordOffset(n) <= 32767) =>
              Signed16(BranchField(n)) * 4 + instructions[n][1] + 4 = BranchTarget(n)

\* a backward branch has been encoded: its label lies before the record
C7_Witness ==
    \E n \in BranchRecords :
        /\ BranchTarget(n) < instructions[n][1]
        /\ WordOffset(n) >= -32768
        /\ Signed16(BranchField(n)) < 0

\* ------------------------------------------------------------------------
\* C8: ADD at address 0x00400000.
\* ------------------------------------------------------------------------
EncodedAlone(text) ==
    /\ instructions = <<<<BaseAddress, text>>>>
    /\ pc \in {"done", "failed"}

\* C8 (as claimed): the text ADD $t0, $t1, $t2 at 0x00400000 is encoded, with
\* rs = 01001, rt = 01010, rd = 01000, shamt = 00000, funct = 100000.
C8_SymbolicRegisters ==
    EncodedAlone(txt_add_sym) => written = <<<<BaseAddress, AddT0T1T2Word>>>>

\* C8 (amended): that word is the encoding of ADD $8, $9, $10, the registers
\* written by number and the operand order rd, rs, rt laid out as
\* opcode|rs|rt|rd|shamt|funct; on the symbolic names $t0..$t2 the encoder
\* raises ValueError and nothing is written.
C8_NumericRegisters ==
    /\ EncodedAlone(txt_add_num) => written = <<<<BaseAddress, AddT0T1T2Word>>>>
    /\ EncodedAlone(txt_add_sym) =>
          pc = "failed" /\ exc = "ValueError" /\ written = <<>>

C8_Witness ==
    /\ EncodedAlone(txt_add_num)
    /\ pc = "done"
    /\ Len(written) = 1

\* ------------------------------------------------------------------------
\* C9 (as claimed): on a line with more than one colon the whole trimmed
\* text after the first colon is recorded as one record at the current
\* address.
\* ------------------------------------------------------------------------
ColonCount(t) == Cardinality({i \in 1..Len(t) : t[i] = ":"})

AfterFirstColon(t) == strip(SubSeq(t, FirstIndex(t, {":"}) + 1, Len(t)))

C9_WholeRemainderRecorded ==
    \A j \in 1..(lineno - 1) :
        LET t == strip_comment(lines[j])
            n == RecordsBefore(j)
        IN  ColonCount(t) > 1 =>
                /\ Len(instructions) > n
                /\ instructions[n + 1] = <<BaseAddress + 4 * n, AfterFirstColon(t)>>

\* ------------------------------------------------------------------------
\* C10: no encode step happens before the scan has processed every line, no
\* step after the scan changes the label table, and every record written
\* is the encoding of its instruction under the label table of the whole
\* scan, forward references included.
\* ------------------------------------------------------------------------
ScanComplete == lineno > Len(lines)

EncodingStarted == pc # "scan" \/ k > 1 \/ written # <<>>

FinalLabels == scan_prefix(lines, Len(lines)).labels

WrittenUnderFinalLabels ==
    \A n \in 1..Len(written) :
        LET r == instruction_to_machine_code(
                    instructions[n][2], FinalLabels, instructions[n][1])
        IN  r.exc = "" /\ written[n] = <<instructions[n][1], r.val>>

C10_ScanBeforeEncode ==
    /\ [](EncodingStarted => ScanComplete /\ labels = FinalLabels)
    /\ [](WrittenUnderFinalLabels)
    /\ [][pc # "scan" => labels' = labels]_vars

\* a branch to a label defined on a later line has been written
C10_Witness ==
    /\ pc = "done"
    /\ \E n \in BranchRecords :
          /\ BranchTarget(n) > instructions[n][1]
          /\ \E j \in 1..Len(lines) :
                /\ RecordsBefore(j) >= n
                /\ Defines(lines[j], Operands(instructions[n][2])[3])

====
